---------------------------- MODULE Spec2Model ----------------------------
(***************************************************************************)
(* A model of aqt/xmlparser.py: the ModuleToPackage index (two dicts kept  *)
(* side by side) and the Updates catalog with its dfs traversal.           *)
(*                                                                         *)
(* Python dicts are functions whose DOMAIN is the set of keys; Python      *)
(* lists are sequences.  An operation that raises is modelled up to the    *)
(* statement that raises: what it assigned before that point stays         *)
(* assigned.  `assert` is modelled as the default interpreter runs it      *)
(* (assertions enabled).                                                   *)
(***************************************************************************)
EXTENDS Naturals, Sequences, FiniteSets, TLC

VARIABLES
    modules_to_packages,   \* ModuleToPackage._modules_to_packages
    packages_to_modules,   \* ModuleToPackage._packages_to_modules
    call,                  \* the last call made on the index or the catalog
    outcome,               \* how that call ended: the exception and its line
    package_updates,       \* Updates.package_updates
    consumed,              \* per record: its dependencies generator is used up
    target,                \* dfs: the argument
    filo,                  \* dfs: the work stack
    packages,              \* dfs: the result list
    visited,               \* dfs: the visited list
    pc,                    \* dfs: "idle" | "loop" | "done" | "error"
    fresh,                 \* no generator of the catalog was used up when
                           \* the current dfs call started
    returned,              \* what the last completed call on the catalog returned
    application,           \* Updates.application_name, .application_version
    other                  \* a second Updates object, the argument of extend

m2pVars == <<modules_to_packages, packages_to_modules, call, outcome>>
dfsVars == <<package_updates, consumed, target, filo, packages, visited, pc, fresh,
             returned, application, other>>
vars == <<modules_to_packages, packages_to_modules, call, outcome,
          package_updates, consumed, target, filo, packages, visited, pc, fresh,
          returned, application, other>>

---------------------------------------------------------------------------
(* Bounds and input alphabets *)

Modules == {"m1", "m2"}
PackageNames == {"a", "b"}

MaxInitLen == 2     \* longest candidate list of an initial map
MaxAddLen == 2      \* longest package_names argument of add
MaxListLen == 3     \* add is not called once a list would grow past this

Names == {"t", "x", "d"}    \* package identifiers of manifests and dfs targets

\* Size of a manifest: its PackageUpdate elements plus their dependency tokens.
MaxManifestSize == 5

\* Characters of the text of a list element (Dependencies, AutoDependOn,
\* DownloadableArchives), and the characters str.strip() removes.
Chars == {"a", ",", " "}
Whitespace == {" ", "\t", "\n", "\r"}

BoolTexts == {"true", "True", "1"}     \* texts of Default and Virtual
AppTexts == {"QtSDK"}                  \* texts of ApplicationName and ApplicationVersion

\* Size of a manifest text: its PackageUpdate elements, plus their child
\* elements, plus the characters of the list elements' texts.
MaxDocumentSize == 5

---------------------------------------------------------------------------
(* Helpers for lists and dicts *)

Range(s) == {s[i] : i \in 1..Len(s)}

SeqsUpTo(S, n) == UNION {[1..k -> S] : k \in 0..n}

DictPut(d, k, v) == [x \in (DOMAIN d) \cup {k} |-> IF x = k THEN v ELSE d[x]]

DictPop(d, k) == [x \in (DOMAIN d) \ {k} |-> d[x]]

EmptyDict == [x \in {} |-> x]

NoException == [exc |-> "None", line |-> 0]

Raised(e, l) == [exc |-> e, line |-> l]

\* The value a call on the catalog handed back, with the call's argument.
NoReturn == [op |-> "none", arg |-> <<>>, value |-> <<>>]

Returned(o, a, v) == [op |-> o, arg |-> a, value |-> v]

\* An Optional[str] value: None, or a text.
NoneText == [none |-> TRUE, text |-> ""]

StrText(t) == [none |-> FALSE, text |-> t]

\* Updates() sets no application_name and no application_version.
Unset == [set |-> FALSE, name |-> NoneText, version |-> NoneText]

\* Updates(): an object with an empty package_updates list.
EmptyUpdates == [application |-> Unset, package_updates |-> <<>>]

---------------------------------------------------------------------------
(* ModuleToPackage *)

\* An initial map is a dict literal: an ordered list of items with distinct keys.
InitialMaps ==
    {im \in SeqsUpTo([key : Modules, value : SeqsUpTo(PackageNames, MaxInitLen)],
                     Cardinality(Modules)) :
        \A i, j \in 1..Len(im) : im[i].key = im[j].key => i = j}

\* self._modules_to_packages = initial_map
ForwardOf(im) ==
    [m \in {im[i].key : i \in 1..Len(im)} |->
        im[CHOOSE i \in 1..Len(im) : im[i].key = m].value]

\* The inner clause of the comprehension: `for value in list_of_values`,
\* each value stored under `key`; a later store replaces an earlier one.
RECURSIVE ReverseOfList(_, _, _, _)
ReverseOfList(rev, key, values, i) ==
    IF i > Len(values) THEN rev
    ELSE ReverseOfList(DictPut(rev, values[i], key), key, values, i + 1)

\* {value: key for key, list_of_values in initial_map.items() for value in list_of_values}
RECURSIVE ReverseOf(_, _, _)
ReverseOf(rev, im, i) ==
    IF i > Len(im) THEN rev
    ELSE ReverseOf(ReverseOfList(rev, im[i].key, im[i].value, 1), im, i + 1)

GetAlwaysEmpty(d, k) == <<>>

\* dict.get(module_name, [])
GetOrEmpty(d, k) == IF k \in DOMAIN d THEN d[k] ELSE <<>>

CollisionUnchecked(rev, package_name, module_name) == FALSE

\* The condition under which the assert of add raises.
Collision(rev, package_name, module_name) == package_name \in DOMAIN rev

\* The loop of add.  Result: the reverse dict as the loop leaves it and
\* whether the assert raised.
RECURSIVE AddLoop(_, _, _, _)
AddLoop(rev, module_name, package_names, i) ==
    IF i > Len(package_names) THEN [rev |-> rev, raised |-> FALSE]
    ELSE IF Collision(rev, package_names[i], module_name)
         THEN [rev |-> rev, raised |-> TRUE]
         ELSE AddLoop(DictPut(rev, package_names[i], module_name),
                      module_name, package_names, i + 1)

\* The loop of remove_module_for_package: dict.pop(package_name) without a
\* default raises KeyError on a missing key.
RECURSIVE RemoveLoop(_, _, _)
RemoveLoop(rev, names, i) ==
    IF i > Len(names) THEN [rev |-> rev, raised |-> FALSE]
    ELSE IF names[i] \notin DOMAIN rev
         THEN [rev |-> rev, raised |-> TRUE]
         ELSE RemoveLoop(DictPop(rev, names[i]), names, i + 1)

\* has_package
has_package(package_name) == package_name \in DOMAIN packages_to_modules

\* get_modules
get_modules == DOMAIN modules_to_packages

\* __len__
len == Cardinality(DOMAIN modules_to_packages)

\* ModuleToPackage(initial_map)
Construct(im) ==
    /\ modules_to_packages = ForwardOf(im)
    /\ packages_to_modules = ReverseOf(EmptyDict, im, 1)
    /\ call = [op |-> "__init__"]
    /\ outcome = NoException

\* add(module_name, package_names): the forward dict is assigned first, then
\* the loop stores reverse entries until the assert raises or the list ends.
add(module_name, package_names) ==
    LET fwd == DictPut(modules_to_packages, module_name,
                       GetOrEmpty(modules_to_packages, module_name) \o package_names)
        r == AddLoop(packages_to_modules, module_name, package_names, 1)
    IN /\ Len(fwd[module_name]) <= MaxListLen
       /\ modules_to_packages' = fwd
       /\ packages_to_modules' = r.rev
       /\ call' = [op |-> "add", module_name |-> module_name,
                   package_names |-> package_names]
       /\ outcome' = IF r.raised THEN Raised("AssertionError", 56) ELSE NoException
       /\ UNCHANGED dfsVars

\* Lines 61-63, reached once the lookup of line 60 has found module_name.
RemoveOwned(fwd, rev, module_name) ==
    IF module_name \notin DOMAIN fwd
    THEN [fwd |-> fwd, rev |-> rev, outcome |-> Raised("KeyError", 61)]
    ELSE LET r == RemoveLoop(rev, fwd[module_name], 1) IN
         IF r.raised
         THEN [fwd |-> fwd, rev |-> r.rev, outcome |-> Raised("KeyError", 62)]
         ELSE [fwd |-> DictPop(fwd, module_name), rev |-> r.rev,
               outcome |-> NoException]

RemoveResultQuiet(fwd, rev, package_name) ==
    IF package_name \notin DOMAIN rev
    THEN [fwd |-> fwd, rev |-> rev, outcome |-> NoException]
    ELSE RemoveOwned(fwd, rev, rev[package_name])

\* The body of remove_module_for_package: the dicts and the exception it
\* ends with.  self._packages_to_modules[package_name] raises KeyError on a
\* missing key.
RemoveResult(fwd, rev, package_name) ==
    IF package_name \notin DOMAIN rev
    THEN [fwd |-> fwd, rev |-> rev, outcome |-> Raised("KeyError", 60)]
    ELSE RemoveOwned(fwd, rev, rev[package_name])

\* remove_module_for_package(package_name)
remove_module_for_package(package_name) ==
    LET r == RemoveResult(modules_to_packages, packages_to_modules, package_name) IN
    /\ modules_to_packages' = r.fwd
    /\ packages_to_modules' = r.rev
    /\ call' = [op |-> "remove_module_for_package", package_name |-> package_name]
    /\ outcome' = r.outcome
    /\ UNCHANGED dfsVars

Add == \E m \in Modules : \E ps \in SeqsUpTo(PackageNames, MaxAddLen) : add(m, ps)

Remove == \E p \in PackageNames : remove_module_for_package(p)

\* No catalog is involved while the index is exercised.
NoCatalog ==
    /\ package_updates = <<>>
    /\ consumed = <<>>
    /\ target = ""
    /\ filo = <<>>
    /\ packages = <<>>
    /\ visited = <<>>
    /\ pc = "idle"
    /\ fresh = TRUE
    /\ returned = NoReturn
    /\ application = Unset
    /\ other = EmptyUpdates

InitM2P == (\E im \in InitialMaps : Construct(im)) /\ NoCatalog

NextM2P == Add \/ Remove

SpecM2P == InitM2P /\ [][NextM2P]_vars

---------------------------------------------------------------------------
(* Updates: the catalog and dfs *)

\* _get_list: None when the Dependencies element or its text is missing,
\* else the generator ssplit(text), which yields one stripped piece per
\* comma-separated piece of the text (at least one).
NoneList == [none |-> TRUE, items |-> <<>>]

SplitList(pieces) == [none |-> FALSE, items |-> pieces]

\* The PackageUpdate records fromstring can append for an element of the
\* given size (1 for the element, 1 for each dependency token).
PackageUpdatesOfSize(n) ==
    IF n = 1
    THEN {[name |-> nm, dependencies |-> NoneList] : nm \in Names}
    ELSE {[name |-> nm, dependencies |-> SplitList(ps)] :
             nm \in Names, ps \in [1..(n - 1) -> Names]}

\* The package_updates lists fromstring can build from a manifest of size n:
\* one record per PackageUpdate element, in document order.
RECURSIVE CatalogsOfSize(_)
CatalogsOfSize(n) ==
    IF n = 0 THEN {<<>>}
    ELSE UNION {{<<r>> \o c : r \in PackageUpdatesOfSize(k), c \in CatalogsOfSize(n - k)} :
                   k \in 1..n}

Catalogs == UNION {CatalogsOfSize(n) : n \in 0..MaxManifestSize}

\* What `for depend in entry.dependencies` iterates over: a generator yields
\* its items once and nothing afterwards.
Yielded(entry, used) == IF used THEN <<>> ELSE entry.dependencies.items

RECURSIVE PushUnvisitedStale(_, _, _, _)
PushUnvisitedStale(stack, items, vis, i) ==
    IF i > Len(items) THEN stack
    ELSE PushUnvisitedStale(IF items[i] \in Range(SubSeq(vis, 1, Len(vis) - 1))
                            THEN stack ELSE Append(stack, items[i]),
                            items, vis, i + 1)

\* for depend in entry.dependencies: if depend not in visited: filo.append(depend)
RECURSIVE PushUnvisited(_, _, _, _)
PushUnvisited(stack, items, vis, i) ==
    IF i > Len(items) THEN stack
    ELSE PushUnvisited(IF items[i] \in Range(vis) THEN stack ELSE Append(stack, items[i]),
                       items, vis, i + 1)

\* The step of the scan at a record whose name equals next.  Iterating over
\* None raises TypeError, after visited.append(next).
RECURSIVE ScanEntries(_, _, _, _, _, _)
ScanMatch(catalog, used, next, vis, stack, i) ==
    LET vis1 == Append(vis, next) IN
    IF catalog[i].dependencies.none
    THEN [visited |-> vis1, filo |-> stack, consumed |-> used, raised |-> TRUE]
    ELSE ScanEntries(catalog, [used EXCEPT ![i] = TRUE], next, vis1,
                     PushUnvisited(stack, Yielded(catalog[i], used[i]), vis1, 1),
                     i + 1)

RECURSIVE ScanFirstMatchOnly(_, _, _, _, _, _)
ScanFirstMatchOnly(catalog, used, next, vis, stack, i) ==
    IF i > Len(catalog)
    THEN [visited |-> vis, filo |-> stack, consumed |-> used, raised |-> FALSE]
    ELSE IF catalog[i].name = next
         THEN LET vis1 == Append(vis, next) IN
              IF catalog[i].dependencies.none
              THEN [visited |-> vis1, filo |-> stack, consumed |-> used, raised |-> TRUE]
              ELSE [visited |-> vis1,
                    filo |-> PushUnvisited(stack, Yielded(catalog[i], used[i]), vis1, 1),
                    consumed |-> [used EXCEPT ![i] = TRUE], raised |-> FALSE]
         ELSE ScanFirstMatchOnly(catalog, used, next, vis, stack, i + 1)

\* for entry in self.package_updates: if entry.name == next: ...
\* from record i on.  Result: the lists as the scan leaves them, the
\* generators it used up, and whether it raised.
ScanEntries(catalog, used, next, vis, stack, i) ==
    IF i > Len(catalog)
    THEN [visited |-> vis, filo |-> stack, consumed |-> used, raised |-> FALSE]
    ELSE IF catalog[i].name = next
         THEN ScanMatch(catalog, used, next, vis, stack, i)
         ELSE ScanEntries(catalog, used, next, vis, stack, i + 1)

\* dfs(target), up to the loop: the three lists are initialised.
DfsCall(t) ==
    /\ pc \in {"idle", "done", "error"}
    /\ target' = t
    /\ filo' = <<t>>
    /\ packages' = <<>>
    /\ visited' = <<>>
    /\ pc' = "loop"
    /\ fresh' = (\A i \in 1..Len(consumed) : ~consumed[i])
    /\ UNCHANGED <<package_updates, consumed, returned, application, other>>
    /\ UNCHANGED m2pVars

DfsStepAppendMatched ==
    /\ pc = "loop"
    /\ Len(filo) > 0
    /\ LET next == filo[Len(filo)]
           r == ScanEntries(package_updates, consumed, next, visited,
                            SubSeq(filo, 1, Len(filo) - 1), 1)
       IN /\ packages' = IF Len(r.visited) > Len(visited)
                         THEN Append(packages, next) ELSE packages
          /\ filo' = r.filo
          /\ visited' = r.visited
          /\ consumed' = r.consumed
          /\ pc' = IF r.raised THEN "error" ELSE "loop"
          /\ returned' = IF r.raised THEN NoReturn ELSE returned
    /\ UNCHANGED <<package_updates, target, fresh, application, other>>
    /\ UNCHANGED m2pVars

\* One iteration of `while len(filo) > 0`.
DfsStep ==
    /\ pc = "loop"
    /\ Len(filo) > 0
    /\ LET next == filo[Len(filo)]
           r == ScanEntries(package_updates, consumed, next, visited,
                            SubSeq(filo, 1, Len(filo) - 1), 1)
       IN /\ packages' = Append(packages, next)
          /\ filo' = r.filo
          /\ visited' = r.visited
          /\ consumed' = r.consumed
          /\ pc' = IF r.raised THEN "error" ELSE "loop"
          /\ returned' = IF r.raised THEN NoReturn ELSE returned
    /\ UNCHANGED <<package_updates, target, fresh, application, other>>
    /\ UNCHANGED m2pVars

\* The loop ends: return packages.
DfsReturn ==
    /\ pc = "loop"
    /\ Len(filo) = 0
    /\ pc' = "done"
    /\ returned' = Returned("dfs", target, packages)
    /\ UNCHANGED <<package_updates, consumed, target, filo, packages, visited, fresh,
                   application, other>>
    /\ UNCHANGED m2pVars

Dfs == \E t \in Names : DfsCall(t)

\* No index is involved while the catalog is exercised.
NoIndex ==
    /\ modules_to_packages = EmptyDict
    /\ packages_to_modules = EmptyDict
    /\ call = [op |-> "__init__"]
    /\ outcome = NoException

\* The state after fromstring: the records in document order, every
\* dependencies generator unused.
InitDfs ==
    /\ package_updates \in Catalogs
    /\ consumed = [i \in 1..Len(package_updates) |-> FALSE]
    /\ target = ""
    /\ filo = <<>>
    /\ packages = <<>>
    /\ visited = <<>>
    /\ pc = "idle"
    /\ fresh = TRUE
    /\ returned = NoReturn
    /\ application = [set |-> TRUE, name |-> StrText("QtSDK"), version |-> StrText("1")]
    /\ other = EmptyUpdates
    /\ NoIndex

NextDfs == Dfs \/ DfsStep \/ DfsReturn

SpecDfs == InitDfs /\ [][NextDfs]_vars

\* The loop is not abandoned between two iterations: a synchronous call runs
\* until it returns or raises.
FairSpecDfs == SpecDfs /\ WF_vars(DfsStep) /\ WF_vars(DfsReturn)

---------------------------------------------------------------------------
(* Updates.fromstring *)

\* What element.find(tag) gives, and the .text of what it found:
\* None (no such child), an element whose text is None, an element with text.
Missing == [found |-> FALSE, hastext |-> FALSE]

Empty == [found |-> TRUE, hastext |-> FALSE]

WithText(t) == [found |-> TRUE, hastext |-> TRUE, text |-> t]

\* The children a PackageUpdate element can have under one tag, by size.
ListChildrenOfSize(n) ==
    IF n = 0 THEN {Missing}
    ELSE IF n = 1 THEN {Empty}
    ELSE {WithText(t) : t \in [1..(n - 1) -> Chars]}

AtomChildrenOfSize(n, texts) ==
    IF n = 0 THEN {Missing}
    ELSE IF n = 1 THEN {Empty} \cup {WithText(t) : t \in texts}
    ELSE {}

\* The ways of spending n on the six children of one element: the three
\* one-word children take 0 or 1 each, the three lists take the rest.
ChildSizes(n) ==
    {k \in [1..3 -> 0..1] \X [1..3 -> 0..n] :
        k[1][1] + k[1][2] + k[1][3] + k[2][1] + k[2][2] + k[2][3] = n}

\* The PackageUpdate elements of size n: 1 for the element, the rest split
\* among its children.
ElementsOfSize(n) ==
    UNION {[Name : AtomChildrenOfSize(k[1][1], Names),
            Dependencies : ListChildrenOfSize(k[2][1]),
            AutoDependOn : ListChildrenOfSize(k[2][2]),
            DownloadableArchives : ListChildrenOfSize(k[2][3]),
            Default : AtomChildrenOfSize(k[1][2], BoolTexts),
            Virtual : AtomChildrenOfSize(k[1][3], BoolTexts)] :
              k \in ChildSizes(n - 1)}

\* The sequences of PackageUpdate elements of total size n, in document order,
\* whose first element has size k or more.
RECURSIVE ElementSeqsOfSize(_, _)
ElementSeqsOfSize(n, k) ==
    IF n = 0 THEN {<<>>}
    ELSE IF k > n THEN {}
    ELSE {<<e>> \o es : e \in ElementsOfSize(k), es \in ElementSeqsOfSize(n - k, 1)}
            \cup ElementSeqsOfSize(n, k + 1)

\* The sequences of PackageUpdate elements of total size n or less.
RECURSIVE ElementSeqsUpTo(_)
ElementSeqsUpTo(n) ==
    IF n = 0 THEN ElementSeqsOfSize(0, 1)
    ELSE ElementSeqsOfSize(n, 1) \cup ElementSeqsUpTo(n - 1)

\* The well-formed manifest texts whose PackageUpdate elements have total
\* size n or less: what ElementTree.fromstring hands over.
Documents(n) ==
    [ApplicationName : {Missing, Empty} \cup {WithText(t) : t \in AppTexts},
     ApplicationVersion : {Missing, Empty} \cup {WithText(t) : t \in AppTexts},
     PackageUpdate : ElementSeqsUpTo(n)]

\* item.text
ElementText(item) == IF item.hastext THEN StrText(item.text) ELSE NoneText

FindTextOrNone(item) == [raised |-> FALSE, value |-> ElementText(item)]

\* update_xml.find(tag).text: AttributeError when find returned None.
FindText(item) == [raised |-> ~item.found, value |-> ElementText(item)]

\* _get_text
get_text(item) == IF item.found /\ item.hastext THEN item.text ELSE ""

\* str.strip(), from the left and from the right.
RECURSIVE LStrip(_)
LStrip(t) == IF Len(t) > 0 /\ t[1] \in Whitespace THEN LStrip(Tail(t)) ELSE t

RECURSIVE RStrip(_)
RStrip(t) ==
    IF Len(t) > 0 /\ t[Len(t)] \in Whitespace THEN RStrip(SubSeq(t, 1, Len(t) - 1)) ELSE t

StripLeftOnly(t) == LStrip(t)

Strip(t) == RStrip(LStrip(t))

\* data.split(","): the pieces between the commas, from character i on;
\* cur is the piece under construction.
RECURSIVE SplitComma(_, _, _)
SplitComma(data, i, cur) ==
    IF i > Len(data) THEN <<cur>>
    ELSE IF data[i] = "," THEN <<cur>> \o SplitComma(data, i + 1, <<>>)
         ELSE SplitComma(data, i + 1, Append(cur, data[i]))

\* ssplit: what the generator yields, in order.
ssplit(data) == LET pieces == SplitComma(data, 1, <<>>)
                IN [j \in 1..Len(pieces) |-> Strip(pieces[j])]

\* _get_list
get_list(item) == IF item.found /\ item.hastext THEN SplitList(ssplit(item.text)) ELSE NoneList

\* _get_boolean: `"true" == item` compares a str with what find() returned,
\* an Element or None; a str equals neither, whatever the element's text.
get_boolean(item) == IF item.found /\ FALSE THEN TRUE ELSE FALSE

\* The PackageUpdate appended for one element (lines 111-134).
ParsePackageUpdate(e) ==
    [name |-> get_text(e.Name),
     dependencies |-> get_list(e.Dependencies),
     auto_dependon |-> get_list(e.AutoDependOn),
     downloadable_archives |-> get_list(e.DownloadableArchives),
     default |-> get_boolean(e.Default),
     virtual |-> get_boolean(e.Virtual)]

\* fromstring: the exception it ends with and the object it returns.
fromstring(doc) ==
    LET an == FindText(doc.ApplicationName)
        av == FindText(doc.ApplicationVersion)
    IN IF an.raised
       THEN [outcome |-> Raised("AttributeError", 108), application |-> Unset,
             package_updates |-> <<>>]
       ELSE IF av.raised
       THEN [outcome |-> Raised("AttributeError", 109), application |-> Unset,
             package_updates |-> <<>>]
       ELSE [outcome |-> NoException,
             application |-> [set |-> TRUE, name |-> an.value, version |-> av.value],
             package_updates |-> [i \in 1..Len(doc.PackageUpdate) |->
                                     ParsePackageUpdate(doc.PackageUpdate[i])]]

\* Updates.fromstring(update_xml_text).  When the call raises, no object is
\* handed over.
FromString(doc) ==
    LET r == fromstring(doc) IN
    /\ call' = [op |-> "fromstring", update_xml_text |-> doc]
    /\ outcome' = r.outcome
    /\ application' = r.application
    /\ package_updates' = r.package_updates
    /\ consumed' = [i \in 1..Len(r.package_updates) |-> FALSE]
    /\ UNCHANGED <<modules_to_packages, packages_to_modules>>
    /\ UNCHANGED <<target, filo, packages, visited, pc, fresh, returned, other>>

\* Every call builds an object of its own, so the state after a call depends
\* on the text alone; the model follows the first call.
Parse == call.op = "__init__" /\ \E doc \in Documents(MaxDocumentSize) : FromString(doc)

InitParse == NoIndex /\ NoCatalog

NextParse == Parse

SpecParse == InitParse /\ [][NextParse]_vars

---------------------------------------------------------------------------
(* Updates.get_from_arch and Updates.extend *)

\* The characters of record names and architecture suffixes.
NameChars == {"a", "b"}

MaxCatalogSize == 5

MaxArchLen == 2

MaxMergedLen == 4

\* The records of size n: 1 for the record, 1 for each character of its name.
NamedUpdatesOfSize(n) ==
    {[name |-> nm, dependencies |-> NoneList] : nm \in [1..(n - 1) -> NameChars]}

\* The package_updates lists of total size n whose first record has size k
\* or more.
RECURSIVE NamedCatalogsOfSize(_, _)
NamedCatalogsOfSize(n, k) ==
    IF n = 0 THEN {<<>>}
    ELSE IF k > n THEN {}
    ELSE {<<r>> \o c : r \in NamedUpdatesOfSize(k), c \in NamedCatalogsOfSize(n - k, 1)}
            \cup NamedCatalogsOfSize(n, k + 1)

\* application_name and application_version of an object: not set by
\* Updates(), set by fromstring.
Applications == {Unset, [set |-> TRUE, name |-> StrText("QtSDK"), version |-> StrText("1")]}

Archs == UNION {[1..n -> NameChars] : n \in 0..MaxArchLen}

StartsWith(s, prefix) ==
    Len(prefix) <= Len(s) /\ SubSeq(s, 1, Len(prefix)) = prefix

\* str.endswith
endswith(s, suffix) ==
    Len(suffix) <= Len(s) /\ SubSeq(s, Len(s) - Len(suffix) + 1, Len(s)) = suffix

\* The loop of get_from_arch from record i on (lines 142-144).
RECURSIVE ArchLoop(_, _, _, _)
ArchLoop(updates, arch, i, result) ==
    IF i > Len(updates) THEN result
    ELSE ArchLoop(updates, arch, i + 1,
                  IF endswith(updates[i].name, arch)
                  THEN Append(result, updates[i]) ELSE result)

get_from_arch(updates, arch) == ArchLoop(updates, arch, 1, <<>>)

\* self.get_from_arch(arch)
GetFromArch(arch) ==
    /\ call' = [op |-> "get_from_arch", arch |-> arch]
    /\ outcome' = NoException
    /\ returned' = Returned("get_from_arch", arch, get_from_arch(package_updates, arch))
    /\ UNCHANGED <<package_updates, consumed, application, other>>
    /\ UNCHANGED <<modules_to_packages, packages_to_modules>>
    /\ UNCHANGED <<target, filo, packages, visited, pc, fresh>>

PrependList(xs, ys) == ys \o xs

\* list.extend
ExtendList(xs, ys) == xs \o ys

\* self.extend(other), other being a second object; it returns None.
Extend ==
    /\ Len(package_updates) + Len(other.package_updates) <= MaxMergedLen
    /\ call' = [op |-> "extend"]
    /\ outcome' = NoException
    /\ package_updates' = ExtendList(package_updates, other.package_updates)
    /\ consumed' = [i \in 1..Len(package_updates') |-> FALSE]
    /\ returned' = NoReturn
    /\ UNCHANGED <<application, other>>
    /\ UNCHANGED <<modules_to_packages, packages_to_modules>>
    /\ UNCHANGED <<target, filo, packages, visited, pc, fresh>>

\* Two objects, each as fromstring or Updates() left it.
InitCatalog ==
    /\ NoIndex
    /\ \E n \in 0..MaxCatalogSize : \E m \in 0..(MaxCatalogSize - n) :
          /\ package_updates \in NamedCatalogsOfSize(n, 1)
          /\ \E pu \in NamedCatalogsOfSize(m, 1), app \in Applications :
                other = [application |-> app, package_updates |-> pu]
    /\ application \in Applications
    /\ consumed = [i \in 1..Len(package_updates) |-> FALSE]
    /\ returned = NoReturn
    /\ target = ""
    /\ filo = <<>>
    /\ packages = <<>>
    /\ visited = <<>>
    /\ pc = "idle"
    /\ fresh = TRUE

NextCatalog == (\E arch \in Archs : GetFromArch(arch)) \/ Extend

SpecCatalog == InitCatalog /\ [][NextCatalog]_vars

---------------------------------------------------------------------------
(* Properties of the index *)

Candidates(m) == Range(modules_to_packages[m])

IsAdd(c) == c.op = "add"

IsRemove(c) == c.op = "remove_module_for_package"

\* No candidate list holds an identifier twice and no two lists share one.
CleanLists ==
    /\ \A m \in get_modules : \A i, j \in 1..Len(modules_to_packages[m]) :
          modules_to_packages[m][i] = modules_to_packages[m][j] => i = j
    /\ \A m1, m2 \in get_modules : m1 # m2 => Candidates(m1) \cap Candidates(m2) = {}

\* C1: the reverse map is exactly the inverse of the forward map, in every
\* state: has_package(p) holds iff p is a candidate of some module of the
\* forward map, and the reverse map sends p to a module that lists p.
C1_ReverseIsInverse ==
    /\ \A p \in PackageNames :
          has_package(p) <=> \E m \in get_modules : p \in Candidates(m)
    /\ \A p \in DOMAIN packages_to_modules :
          /\ packages_to_modules[p] \in get_modules
          /\ p \in Candidates(packages_to_modules[p])

\* C2: remove_module_for_package is all-or-nothing: a call either deletes the
\* owning module and leaves none of its candidates in the reverse map, or
\* raises and leaves both maps as they were.
C2_RemoveAllOrNothing ==
    [][IsRemove(call') =>
          \/ /\ outcome' # NoException
             /\ UNCHANGED <<modules_to_packages, packages_to_modules>>
          \/ /\ outcome' = NoException
             /\ call'.package_name \in DOMAIN packages_to_modules
             /\ LET m == packages_to_modules[call'.package_name] IN
                  /\ m \in DOMAIN modules_to_packages
                  /\ modules_to_packages' = DictPop(modules_to_packages, m)
                  /\ \A c \in Range(modules_to_packages[m]) :
                        c \notin DOMAIN packages_to_modules']_vars

\* C3: in every state every package identifier is a candidate of at most
\* one module of the forward map.
C3_NoSharedCandidate ==
    \A m1, m2 \in get_modules : m1 # m2 => Candidates(m1) \cap Candidates(m2) = {}

\* C4: when the candidate lists hold no repeated and no shared identifier,
\* remove_module_for_package(c) for a candidate c of module m completes,
\* has_package is false afterwards for every candidate of m, m is no longer
\* a pending module and the module count has dropped by one.
C4_RemoveByAnyCandidate ==
    [][(/\ IsRemove(call')
        /\ CleanLists
        /\ \E m \in get_modules : call'.package_name \in Candidates(m))
       => LET m == CHOOSE m \in get_modules : call'.package_name \in Candidates(m) IN
          /\ outcome' = NoException
          /\ \A c \in Candidates(m) : c \notin DOMAIN packages_to_modules'
          /\ m \notin DOMAIN modules_to_packages'
          /\ Cardinality(DOMAIN modules_to_packages') + 1
                = Cardinality(DOMAIN modules_to_packages)]_vars

\* C5: add raises the collision error whenever one of its candidates is
\* mapped by the reverse map to a module other than the one added to.
C5_AddCollisionRaises ==
    [][(/\ IsAdd(call')
        /\ \E p \in Range(call'.package_names) :
              /\ p \in DOMAIN packages_to_modules
              /\ packages_to_modules[p] # call'.module_name)
       => outcome' = Raised("AssertionError", 56)]_vars

\* An add has raised on a candidate that another module owns (add stores
\* reverse entries for its own module only, so the entry was there before).
C5_Witness ==
    /\ IsAdd(call)
    /\ outcome.exc = "AssertionError"
    /\ \E p \in Range(call.package_names) :
          /\ p \in DOMAIN packages_to_modules
          /\ packages_to_modules[p] # call.module_name

\* C6: remove_module_for_package(p) with p not in the reverse map raises a
\* lookup error and leaves both maps unchanged.
C6_RemoveUnknownRaises ==
    [][(IsRemove(call') /\ call'.package_name \notin DOMAIN packages_to_modules)
       => /\ outcome'.exc = "KeyError"
          /\ UNCHANGED <<modules_to_packages, packages_to_modules>>]_vars

\* A removal has raised at its lookup, in an index that still holds modules.
C6_Witness ==
    /\ IsRemove(call)
    /\ outcome = Raised("KeyError", 60)
    /\ call.package_name \notin DOMAIN packages_to_modules
    /\ get_modules # {}

---------------------------------------------------------------------------
(* Properties of dfs *)

\* The dependency edges out of an identifier: the dependencies of every
\* record of that name.
EdgesOf(catalog, id) ==
    UNION {Range(catalog[i].dependencies.items) :
              i \in {j \in 1..Len(catalog) : catalog[j].name = id}}

RECURSIVE ReachableFrom(_, _)
ReachableFrom(catalog, S) ==
    LET N == S \cup UNION {EdgesOf(catalog, id) : id \in S}
    IN IF N = S THEN S ELSE ReachableFrom(catalog, N)

Reachable == ReachableFrom(package_updates, {target})

\* C7: on a freshly parsed catalog the identifiers of the result of
\* dfs(target) are exactly those reachable from target along dependency
\* edges (nothing else is ever appended, and a returned result lacks none).
C7_ClosureIsReachableSet ==
    fresh => /\ Range(packages) \subseteq Reachable
             /\ pc = "done" => Range(packages) = Reachable

\* dfs has returned on a fresh catalog with a record name that two records
\* share, an identifier without a record, and a repeated result entry.
C7_Witness ==
    /\ pc = "done"
    /\ fresh
    /\ Cardinality(Reachable) >= 3
    /\ Len(packages) > Cardinality(Range(packages))
    /\ \E i, j \in 1..Len(package_updates) :
          /\ i # j
          /\ package_updates[i].name = package_updates[j].name
          /\ package_updates[i].name \in Range(packages)
          /\ package_updates[i].dependencies # package_updates[j].dependencies
    /\ \E id \in Range(packages) :
          \A i \in 1..Len(package_updates) : package_updates[i].name # id

\* C8: dfs terminates by running its work stack empty: every call that has
\* entered the loop returns.
C8_DfsRunsStackEmpty == (pc = "loop") ~> (pc = "done")

\* C9: dfs raises no error.
C9_DfsRaisesNothing == pc # "error"

\* The reference algorithm of the specification (section 4.2, steps 1-4),
\* over eagerly materialised dependency lists and a visited set.
RECURSIVE RefPush(_, _, _, _)
RefPush(stack, items, vis, i) ==
    IF i > Len(items) THEN stack
    ELSE RefPush(IF items[i] \in vis THEN stack ELSE Append(stack, items[i]),
                 items, vis, i + 1)

RECURSIVE RefScan(_, _, _, _, _)
RefScan(catalog, next, vis, stack, i) ==
    IF i > Len(catalog) THEN [visited |-> vis, stack |-> stack]
    ELSE IF catalog[i].name = next
         THEN RefScan(catalog, next, vis \cup {next},
                      RefPush(stack, catalog[i].dependencies.items, vis \cup {next}, 1),
                      i + 1)
         ELSE RefScan(catalog, next, vis, stack, i + 1)

RECURSIVE RefLoop(_, _, _, _)
RefLoop(catalog, stack, result, vis) ==
    IF Len(stack) = 0 THEN result
    ELSE LET next == stack[Len(stack)]
             r == RefScan(catalog, next, vis, SubSeq(stack, 1, Len(stack) - 1), 1)
         IN RefLoop(catalog, r.stack, Append(result, next), r.visited)

RefClosure(catalog, t) == RefLoop(catalog, <<t>>, <<>>, {})

\* C10: the sequence dfs returns is the sequence of the reference algorithm,
\* for every catalog and target; stated here for the first call on a
\* freshly parsed catalog, the case the claim covers before any other.
C10_DfsEqualsReference ==
    (pc = "done" /\ fresh) => packages = RefClosure(package_updates, target)

\* C11: dfs leaves the catalog as it found it, so a call dfs(target) that
\* follows a call dfs(target) on the same catalog returns the same sequence.
C11_DfsRepeatable ==
    [][(/\ pc = "loop"
        /\ pc' = "done"
        /\ returned.op = "dfs"
        /\ returned.arg = target)
       => packages = returned.value]_vars

HasRecord(id) == \E i \in 1..Len(package_updates) : package_updates[i].name = id

\* C12: the result of dfs(target) contains target, and when no record of
\* the catalog is named target the result is exactly [target].
C12_TargetInResult ==
    pc = "done" => /\ target \in Range(packages)
                   /\ ~HasRecord(target) => packages = <<target>>

\* dfs has returned for a target that no record of a non-empty catalog names.
C12_Witness ==
    /\ pc = "done"
    /\ ~HasRecord(target)
    /\ Len(package_updates) > 1
    /\ target \in UNION {Range(package_updates[i].dependencies.items) :
                            i \in 1..Len(package_updates)}
    /\ packages = <<target>>

\* C19: in every state of the loop an identifier of visited names a record
\* and is already in the result, and an iteration pushes no identifier that
\* is in visited (so a record-backed identifier is pushed only before its
\* first pop).
C19_VisitedDiscipline ==
    /\ [](\A id \in Range(visited) : HasRecord(id) /\ id \in Range(packages))
    /\ [][(pc = "loop" /\ Len(filo) > 0)
          => \A i \in Len(filo)..Len(filo') : filo'[i] \notin Range(visited')]_vars

\* A call has returned after skipping a dependency that was in visited.
C19_Witness ==
    /\ pc = "done"
    /\ Len(packages) >= 2
    /\ \E i \in 1..Len(package_updates) :
          /\ package_updates[i].name \in Range(visited)
          /\ package_updates[i].name # target
          /\ Range(package_updates[i].dependencies.items) \cap Range(visited) # {}

\* The candidate list of module m before the call; a new module has none.
PreviousList(m) ==
    IF m \in DOMAIN modules_to_packages THEN modules_to_packages[m] ELSE <<>>

\* C18: add completes whenever none of its candidates is owned by a module
\* other than the one added to; the module's list is then its previous list
\* followed by the candidates, and has_package holds for each of them.
C18_AddCompletesUnlessForeign ==
    [][(/\ IsAdd(call')
        /\ \A p \in Range(call'.package_names) :
              p \in DOMAIN packages_to_modules
                 => packages_to_modules[p] = call'.module_name)
       => /\ outcome' = NoException
          /\ modules_to_packages'[call'.module_name]
                = PreviousList(call'.module_name)
                     \o call'.package_names
          /\ \A p \in Range(call'.package_names) :
                p \in DOMAIN packages_to_modules']_vars

\* C18 as amended: add completes whenever none of its candidates is in the
\* reverse map, whichever module owns it, and no identifier occurs twice
\* among the candidates; the module's list is then its previous list
\* followed by the candidates, and has_package holds for each of them.
C18_AddCompletesWhenUnmapped ==
    [][(/\ IsAdd(call')
        /\ \A p \in Range(call'.package_names) : p \notin DOMAIN packages_to_modules
        /\ \A i, j \in 1..Len(call'.package_names) :
              call'.package_names[i] = call'.package_names[j] => i = j)
       => /\ outcome' = NoException
          /\ modules_to_packages'[call'.module_name]
                = PreviousList(call'.module_name)
                     \o call'.package_names
          /\ \A p \in Range(call'.package_names) :
                p \in DOMAIN packages_to_modules']_vars

\* An add of two candidates has completed on a module that had a list before.
C18_Witness ==
    /\ IsAdd(call)
    /\ outcome = NoException
    /\ Len(call.package_names) = 2
    /\ Len(modules_to_packages[call.module_name]) > 2
    /\ \A p \in Range(call.package_names) : has_package(p)

\* C20: remove_module_for_package(p), completed or failed, leaves every
\* module other than the owner of p in the forward map with its list
\* unchanged, and has_package stays true for each of its candidates.
C20_RemoveLeavesOthers ==
    [][IsRemove(call') =>
          \A m \in get_modules :
             (call'.package_name \in DOMAIN packages_to_modules
                 => packages_to_modules[call'.package_name] # m)
             => /\ m \in DOMAIN modules_to_packages'
                /\ modules_to_packages'[m] = modules_to_packages[m]
                /\ \A c \in Candidates(m) :
                      has_package(c) => c \in DOMAIN packages_to_modules']_vars

---------------------------------------------------------------------------
(* Properties of the parser *)

IsParsed == call.op = "fromstring" /\ outcome = NoException

\* The PackageUpdate element the i-th record was parsed from.
ElementOf(i) == call.update_xml_text.PackageUpdate[i]

\* C13: for each parsed PackageUpdate, default is true iff the text of its
\* Default child is exactly "true", and virtual likewise with the Virtual
\* child; any other text or a missing element gives false.
C13_BooleanIffTrueText ==
    IsParsed =>
       \A i \in 1..Len(package_updates) :
          /\ package_updates[i].default
                = (ElementOf(i).Default.hastext /\ ElementOf(i).Default.text = "true")
          /\ package_updates[i].virtual
                = (ElementOf(i).Virtual.hastext /\ ElementOf(i).Virtual.text = "true")

\* The positions of the commas of a text, and its k-th comma.
CommasOf(t) == {i \in 1..Len(t) : t[i] = ","}

CommaAt(t, k) ==
    IF k = 0 THEN 0
    ELSE IF k > Cardinality(CommasOf(t)) THEN Len(t) + 1
    ELSE CHOOSE c \in CommasOf(t) : Cardinality({d \in CommasOf(t) : d <= c}) = k

\* A text without the whitespace around it: from its first to its last
\* character that is not whitespace.
Trimmed(t) ==
    LET inked == {i \in 1..Len(t) : t[i] \notin Whitespace} IN
    IF inked = {} THEN <<>>
    ELSE SubSeq(t, CHOOSE i \in inked : \A j \in inked : i <= j,
                   CHOOSE i \in inked : \A j \in inked : j <= i)

\* pieces is the text t split on commas, each piece trimmed, in order.
IsSplitTrim(t, pieces) ==
    /\ Len(pieces) = Cardinality(CommasOf(t)) + 1
    /\ \A k \in 1..Len(pieces) :
          pieces[k] = Trimmed(SubSeq(t, CommaAt(t, k - 1) + 1, CommaAt(t, k) - 1))

\* The field parsed from one list child is what C16 says it is.
IsListOf(child, field) ==
    IF child.found /\ child.hastext
    THEN field.none = FALSE /\ IsSplitTrim(child.text, field.items)
    ELSE field = NoneList

\* C16: for each parsed PackageUpdate and each of Dependencies, AutoDependOn
\* and DownloadableArchives: a missing child or one without text gives the
\* absent marker, not an empty sequence; otherwise the field is the text
\* split on commas, each piece trimmed of surrounding whitespace, in order,
\* with the empty pieces kept as empty strings.
C16_ListIsSplitTrimmed ==
    IsParsed =>
       \A i \in 1..Len(package_updates) :
          /\ IsListOf(ElementOf(i).Dependencies, package_updates[i].dependencies)
          /\ IsListOf(ElementOf(i).AutoDependOn, package_updates[i].auto_dependon)
          /\ IsListOf(ElementOf(i).DownloadableArchives,
                      package_updates[i].downloadable_archives)

\* "a ," has been parsed into "a" and "", next to an element without
\* DownloadableArchives.
C16_Witness ==
    /\ IsParsed
    /\ \E i \in 1..Len(package_updates) :
          /\ ElementOf(i).Dependencies = WithText(<<"a", " ", ",">>)
          /\ package_updates[i].dependencies.items = << <<"a">>, <<>> >>
          /\ ~ElementOf(i).DownloadableArchives.found
          /\ package_updates[i].downloadable_archives.none

\* C17: parsing fails for every manifest whose root lacks ApplicationName or
\* ApplicationVersion, and no catalog is returned; for every manifest with
\* both present parsing succeeds and application_name and
\* application_version are the text of those elements.
C17_ApplicationRequired ==
    call.op = "fromstring" =>
       LET an == call.update_xml_text.ApplicationName
           av == call.update_xml_text.ApplicationVersion
       IN IF an.found /\ av.found
          THEN /\ outcome = NoException
               /\ application.set
               /\ application.name = IF an.hastext THEN StrText(an.text) ELSE NoneText
               /\ application.version = IF av.hastext THEN StrText(av.text) ELSE NoneText
          ELSE /\ outcome # NoException
               /\ application = Unset
               /\ package_updates = <<>>

\* A manifest with ApplicationName, PackageUpdate elements and no
\* ApplicationVersion has been refused.
C17_Witness ==
    /\ call.op = "fromstring"
    /\ call.update_xml_text.ApplicationName.found
    /\ ~call.update_xml_text.ApplicationVersion.found
    /\ Len(call.update_xml_text.PackageUpdate) > 0
    /\ outcome = Raised("AttributeError", 109)
    /\ application = Unset

---------------------------------------------------------------------------
(* Properties of get_from_arch and extend *)

\* s is some text followed by arch.
HasSuffix(s, arch) == \E k \in 0..Len(s) : s = SubSeq(s, 1, k) \o arch

\* The positions of the records whose name ends with arch.
MatchingAt(updates, arch) == {i \in 1..Len(updates) : HasSuffix(updates[i].name, arch)}

\* result is the records at the given positions, each once, lowest first.
IsSelection(updates, at, result) ==
    /\ Len(result) = Cardinality(at)
    /\ \A i \in at : result[Cardinality({j \in at : j <= i})] = updates[i]

\* C14: get_from_arch(arch) returns exactly the records whose name ends with
\* arch, each once and in catalog order, an empty sequence when none match,
\* and leaves the catalog unchanged.
C14_GetFromArchSelects ==
    [][call'.op = "get_from_arch" =>
          /\ outcome' = NoException
          /\ returned'.op = "get_from_arch"
          /\ IsSelection(package_updates, MatchingAt(package_updates, call'.arch),
                         returned'.value)
          /\ (MatchingAt(package_updates, call'.arch) = {} => returned'.value = <<>>)
          /\ UNCHANGED <<package_updates, application>>]_vars

\* A suffix of one character has selected some records of the catalog and
\* skipped others.
C14_Witness ==
    /\ call.op = "get_from_arch"
    /\ Len(call.arch) = 1
    /\ Len(returned.value) > 0
    /\ Len(returned.value) < Len(package_updates)
    /\ \E i \in 1..Len(package_updates) : Len(package_updates[i].name) = 2

\* C15: a.extend(b) leaves a.package_updates equal to a's previous records
\* followed by b's records in order, nothing dropped or duplicated, and
\* leaves a's application_name and application_version and all of b unchanged.
C15_ExtendAppends ==
    [][call'.op = "extend" =>
          /\ Len(package_updates') = Len(package_updates) + Len(other.package_updates)
          /\ \A i \in 1..Len(package_updates) : package_updates'[i] = package_updates[i]
          /\ \A j \in 1..Len(other.package_updates) :
                package_updates'[Len(package_updates) + j] = other.package_updates[j]
          /\ UNCHANGED <<application, other>>]_vars

\* A catalog with its own metadata has taken over the records of one
\* without: it ends with them and starts with different records.
C15_Witness ==
    /\ call.op = "extend"
    /\ application.set
    /\ ~other.application.set
    /\ Len(other.package_updates) > 0
    /\ Len(package_updates) > Len(other.package_updates)
    /\ package_updates[1] # other.package_updates[1]

====
